---- MODULE Spec2Model ----
(***************************************************************************)
(* TaskFlowAI front end: the App component's handleSubmit (form submit,    *)
(* POST, server-sent-event reader, per-frame dispatch into the UI state)   *)
(* and the WorkflowGraph component (ordered chain of task nodes).          *)
(*                                                                         *)
(* Text is modelled as a sequence of one-character strings, so that        *)
(* chunk.split('\n'), line.startsWith('data: ') and line.slice(6) act on   *)
(* characters as they do in the source.  A JSON object literal is the      *)
(* three characters "{" k "}" where the single character k stands for the  *)
(* members of the object; every other payload makes JSON.parse throw.      *)
(* The response body is ASCII, so TextDecoder.decode is the identity on    *)
(* each chunk.                                                             *)
(***************************************************************************)
EXTENDS Integers, Sequences, FiniteSets, TLC

VARIABLES
    projectInput,   \* useState('')    : text of the textarea
    loading,        \* useState(false)
    planData,       \* useState(null)
    error,          \* useState(null)
    currentAgent,   \* useState(null)
    agentMessage,   \* useState('')
    pc,             \* where the one handleSubmit invocation in flight is suspended
    submitted,      \* projectInput as captured by the running handleSubmit closure
    posts,          \* requests handed to fetch() by the most recent invocation
    err,            \* message of the exception caught at `catch (err)`, or NoErr
    respBody,       \* whole body of the response being streamed
    stream,         \* part of respBody the reader has not delivered yet
    chunks,         \* number of chunks reader.read() has delivered
    lines,          \* lines of the current chunk the for-loop has not visited yet
    dispatched,     \* parsed frames that reached the status dispatch, in order
    streamEnded,    \* the most recent request left the loop by `if (done) break`
    returned,       \* how the most recent invocation returned
    planProp,       \* WorkflowGraph: the planData prop
    output          \* WorkflowGraph: what the component returned for planProp

vars == <<projectInput, loading, planData, error, currentAgent, agentMessage,
          pc, submitted, posts, err, respBody, stream, chunks, lines,
          dispatched, streamEnded, returned, planProp, output>>

appVars == <<projectInput, loading, planData, error, currentAgent, agentMessage,
             pc, submitted, posts, err, respBody, stream, chunks, lines,
             dispatched, streamEnded, returned>>

----------------------------------------------------------------------------
(* Bounds of the model *)

MaxFrames == 3      \* lines in a response body
MaxChunks == 2      \* chunks a body is delivered in
MaxTasks == 3       \* length of dependency_tasks

----------------------------------------------------------------------------
(* JavaScript values *)

Null == "null"              \* null
Undefined == "undefined"    \* a member the object does not have
EmptyString == ""
NoErr == "none"

NL == "\n"
SP == " "

DataPrefix == <<"d", "a", "t", "a", ":", SP>>

ValidationMessage == "Please enter a project description"
ConnectingMessage == "Connecting to agents..."
ConnectFailedMessage == "Failed to connect to the server. Make sure FastAPI is running."
NetworkFailure == "TypeError: Failed to fetch"

----------------------------------------------------------------------------
(* String operations used by handleSubmit *)

IsWhiteSpace(c) == c \in {SP, NL}

RECURSIVE TrimStart(_)
TrimStart(s) ==
    IF s # <<>> /\ IsWhiteSpace(Head(s)) THEN TrimStart(Tail(s)) ELSE s

RECURSIVE TrimEnd(_)
TrimEnd(s) ==
    IF s # <<>> /\ IsWhiteSpace(s[Len(s)])
    THEN TrimEnd(SubSeq(s, 1, Len(s) - 1))
    ELSE s

\* String.prototype.trim
Trim(s) == TrimEnd(TrimStart(s))

\* !projectInput.trim(), the guard of the validation branch without the trim
NotTrimmedIsBlank(s) == s = <<>>

\* !projectInput.trim()
IsBlank(s) == Trim(s) = <<>>

\* The scan of split: line is the text since the last newline, done the lines
\* completed so far
RECURSIVE SplitLoop(_, _, _)
SplitLoop(s, line, done) ==
    IF s = <<>> THEN Append(done, line)
    ELSE IF Head(s) = NL THEN SplitLoop(Tail(s), <<>>, Append(done, line))
    ELSE SplitLoop(Tail(s), Append(line, Head(s)), done)

\* chunk.split('\n'): always at least one line, the last one is what follows
\* the last newline
Split(s) == SplitLoop(s, <<>>, <<>>)

\* line.startsWith(prefix)
StartsWith(line, prefix) ==
    /\ Len(line) >= Len(prefix)
    /\ SubSeq(line, 1, Len(prefix)) = prefix

\* line.slice(n)
Slice(line, n) == SubSeq(line, n + 1, Len(line))

----------------------------------------------------------------------------
(* Frames of the streaming protocol *)

PlanD1 == "D1"      \* the plan object a completed frame carries
ErrorM1 == "M1"     \* the message an error frame carries

\* The object that the members abbreviated by k denote
Members(k) ==
    CASE k = "R" -> [status |-> "running", agent |-> "planner",
                     message |-> "Planning tasks", data |-> Undefined]
      [] k = "C" -> [status |-> "completed", agent |-> Undefined,
                     message |-> Undefined, data |-> PlanD1]
      [] k = "E" -> [status |-> "error", agent |-> Undefined,
                     message |-> ErrorM1, data |-> Undefined]
      [] k = "P" -> [status |-> "pending", agent |-> Undefined,
                     message |-> Undefined, data |-> Undefined]

MemberKinds == {"R", "C", "E", "P"}

\* JSON.parse(text): the parsed object, or the SyntaxError it throws
JSONparse(text) ==
    IF Len(text) = 3 /\ text[1] = "{" /\ text[3] = "}" /\ text[2] \in MemberKinds
    THEN [ok |-> TRUE, value |-> Members(text[2])]
    ELSE [ok |-> FALSE, value |-> Undefined]

FrameLine(k) == DataPrefix \o <<"{", k, "}">>
MalformedLine == DataPrefix \o <<"{", "R">>     \* a frame whose JSON is cut short

LineKinds == {FrameLine(k) : k \in MemberKinds} \cup {MalformedLine}

\* The body the server writes for a sequence of lines: each followed by '\n'
RECURSIVE BodyOf(_)
BodyOf(ls) == IF ls = <<>> THEN <<>> ELSE Head(ls) \o <<NL>> \o BodyOf(Tail(ls))

Bodies == {BodyOf(ls) : ls \in UNION {[1..n -> LineKinds] : n \in 0..MaxFrames}}

Statuses == {200, 404, 500}

\* response.ok
Ok(status) == status >= 200 /\ status <= 299

\* `HTTP error! status: ${response.status}`
HttpErrorMessage(status) ==
    CASE status = 404 -> "HTTP error! status: 404"
      [] status = 500 -> "HTTP error! status: 500"
      [] OTHER -> "HTTP error! status"

\* What the user types into the textarea, which starts out empty: white space
\* only, or a description with white space around it
Inputs == {<<SP>>, <<SP, "a", NL>>}

\* The body of the POST, without the surrounding white space of the input
RequestBodyTrimmed(input) == [project_statement |-> Trim(input)]

\* JSON.stringify({ project_statement: projectInput })
RequestBody(input) == [project_statement |-> input]

\* The request handed to fetch
Request(input) ==
    [url |-> "http://localhost:8000/api/generate-plan", method |-> "POST",
     contentType |-> "application/json", body |-> RequestBody(input)]

----------------------------------------------------------------------------
(* WorkflowGraph *)

Priorities == {"high", "medium", "low", "urgent"}
TaskIds == {7, 3}
Tasks == [id : TaskIds, priority : Priorities]

NullPlan == [present |-> FALSE, has_tasks |-> FALSE, dependency_tasks |-> <<>>]

\* The values of the planData prop: null, an object without dependency_tasks,
\* an object with a dependency_tasks array of up to MaxTasks tasks
PlanProps ==
    {NullPlan, [present |-> TRUE, has_tasks |-> FALSE, dependency_tasks |-> <<>>]}
    \cup {[present |-> TRUE, has_tasks |-> TRUE, dependency_tasks |-> ts] :
            ts \in UNION {[1..n -> Tasks] : n \in 0..MaxTasks}}

\* A lookup that takes every priority but high for the default
getPriorityColorHighOnly(priority) ==
    IF priority = "high" THEN "#ef4444" ELSE "#6b7280"

getPriorityColor(priority) ==
    CASE priority = "high" -> "#ef4444"
      [] priority = "medium" -> "#f59e0b"
      [] priority = "low" -> "#10b981"
      [] OTHER -> "#6b7280"

\* Nothing has been rendered yet
NotRendered == [kind |-> "none", text |-> EmptyString, nodes |-> <<>>]

Placeholder == [kind |-> "placeholder", text |-> "No tasks to visualize", nodes |-> <<>>]

\* The element WorkflowGraph returns: the placeholder, or one node per task of
\* tasks.map((task, index) => ...), index running from 0
WorkflowGraph(p) ==
    IF ~p.present \/ ~p.has_tasks \/ Len(p.dependency_tasks) = 0
    THEN Placeholder
    ELSE LET tasks == p.dependency_tasks
         IN  [kind |-> "chain", text |-> EmptyString,
              nodes |-> [i \in 1..Len(tasks) |->
                  LET task == tasks[i]
                      index == i - 1
                  IN  [key |-> task.id,
                       number |-> index + 1,
                       color |-> getPriorityColor(task.priority),
                       arrow |-> index < Len(tasks) - 1]]]

----------------------------------------------------------------------------
(* The UI state updates of handleSubmit *)

\* status 'running'
OnRunning(data) ==
    /\ currentAgent' = data.agent
    /\ agentMessage' = data.message
    /\ UNCHANGED <<planData, error>>

\* status 'completed', leaving the message of the indicator in place
OnCompletedKeepMessage(data) ==
    /\ currentAgent' = Null
    /\ planData' = data.data
    /\ UNCHANGED <<agentMessage, error>>

\* status 'completed'
OnCompleted(data) ==
    /\ currentAgent' = Null
    /\ agentMessage' = EmptyString
    /\ planData' = data.data
    /\ UNCHANGED error

\* status 'error', dropping the plan as well
OnErrorClearPlan(data) ==
    /\ error' = data.message
    /\ currentAgent' = Null
    /\ agentMessage' = EmptyString
    /\ planData' = Null

\* status 'error'
OnError(data) ==
    /\ error' = data.message
    /\ currentAgent' = Null
    /\ agentMessage' = EmptyString
    /\ UNCHANGED planData

\* The if / else-if chain on data.status
Dispatch(data) ==
    IF data.status = "running" THEN OnRunning(data)
    ELSE IF data.status = "completed" THEN OnCompleted(data)
    ELSE IF data.status = "error" THEN OnError(data)
    ELSE UNCHANGED <<planData, error, currentAgent, agentMessage>>

\* The catch block, leaving the indicator in place
CatchKeepIndicator(e) ==
    /\ error' = ConnectFailedMessage
    /\ err' = e
    /\ UNCHANGED <<currentAgent, agentMessage>>

\* The catch block: e is what console.error prints
Catch(e) ==
    /\ error' = ConnectFailedMessage
    /\ err' = e
    /\ currentAgent' = Null
    /\ agentMessage' = EmptyString

\* A finally block without the setLoading(false)
FinallyKeepLoading == loading' = loading

\* The finally block
Finally == loading' = FALSE

----------------------------------------------------------------------------
(* Initial state: App after its first render *)

AppInit ==
    /\ projectInput = <<>>
    /\ loading = FALSE
    /\ planData = Null
    /\ error = Null
    /\ currentAgent = Null
    /\ agentMessage = EmptyString
    /\ pc = "idle"
    /\ submitted = <<>>
    /\ posts = <<>>
    /\ err = NoErr
    /\ respBody = <<>>
    /\ stream = <<>>
    /\ chunks = 0
    /\ lines = <<>>
    /\ dispatched = <<>>
    /\ streamEnded = FALSE
    /\ returned = "none"

Init ==
    /\ AppInit
    /\ planProp = NullPlan
    /\ output = NotRendered

----------------------------------------------------------------------------
(* Actions *)

\* onChange of the textarea, which is disabled while loading
SetProjectInput ==
    /\ pc = "idle"
    /\ \E s \in Inputs :
        /\ s # projectInput
        /\ projectInput' = s
    /\ UNCHANGED <<loading, planData, error, currentAgent, agentMessage, pc,
                   submitted, posts, err, respBody, stream, chunks, lines,
                   dispatched, streamEnded, returned, planProp, output>>

\* handleSubmit up to its first suspension: the validation return, or the
\* state resets and the call of fetch.  The button that calls it is disabled
\* while loading; its being disabled for a blank input as well is left out, so
\* that the handler's own validation branch is exercised.
HandleSubmit ==
    /\ pc = "idle"
    /\ submitted' = projectInput
    /\ \/ /\ IsBlank(projectInput)
          /\ error' = ValidationMessage
          /\ posts' = <<>>
          /\ returned' = "validation"
          /\ UNCHANGED <<loading, planData, currentAgent, agentMessage, pc, err,
                         respBody, stream, chunks, lines, dispatched, streamEnded>>
       \/ /\ ~IsBlank(projectInput)
          /\ loading' = TRUE
          /\ error' = Null
          /\ planData' = Null
          /\ currentAgent' = "system"
          /\ agentMessage' = ConnectingMessage
          /\ posts' = <<Request(projectInput)>>
          /\ pc' = "fetch"
          /\ err' = NoErr
          /\ respBody' = <<>>
          /\ stream' = <<>>
          /\ chunks' = 0
          /\ lines' = <<>>
          /\ dispatched' = <<>>
          /\ streamEnded' = FALSE
          /\ returned' = "pending"
    /\ UNCHANGED <<projectInput, planProp, output>>

\* The exception path out of the try block: catch, finally, return
Throw(e) ==
    /\ Catch(e)
    /\ Finally
    /\ pc' = "idle"
    /\ returned' = "caught"
    /\ UNCHANGED <<projectInput, planData, submitted, posts, respBody, stream,
                   chunks, lines, dispatched, streamEnded, planProp, output>>

\* await fetch(...) resolves with a response; !response.ok throws
FetchResolve ==
    /\ pc = "fetch"
    /\ \E status \in Statuses :
        \/ /\ ~Ok(status)
           /\ Throw(HttpErrorMessage(status))
        \/ /\ Ok(status)
           /\ \E body \in Bodies :
                /\ respBody' = body
                /\ stream' = body
           /\ pc' = "read"
           /\ UNCHANGED <<projectInput, loading, planData, error, currentAgent,
                          agentMessage, submitted, posts, err, chunks, lines,
                          dispatched, streamEnded, returned, planProp, output>>

\* await fetch(...) rejects
FetchReject ==
    /\ pc = "fetch"
    /\ Throw(NetworkFailure)

\* await reader.read() resolves with the next chunk; it is decoded and split
ReadChunk ==
    /\ pc = "read"
    /\ stream # <<>>
    /\ chunks < MaxChunks
    /\ \E k \in 1..Len(stream) :
        /\ chunks = MaxChunks - 1 => k = Len(stream)
        /\ lines' = Split(SubSeq(stream, 1, k))
        /\ stream' = SubSeq(stream, k + 1, Len(stream))
    /\ chunks' = chunks + 1
    /\ pc' = "lines"
    /\ UNCHANGED <<projectInput, loading, planData, error, currentAgent,
                   agentMessage, submitted, posts, err, respBody, dispatched,
                   streamEnded, returned, planProp, output>>

\* await reader.read() resolves with done: break, finally, return
ReadDone ==
    /\ pc = "read"
    /\ stream = <<>>
    /\ Finally
    /\ streamEnded' = TRUE
    /\ pc' = "idle"
    /\ returned' = "done"
    /\ UNCHANGED <<projectInput, planData, error, currentAgent, agentMessage,
                   submitted, posts, err, respBody, stream, chunks, lines,
                   dispatched, planProp, output>>

\* await reader.read() rejects
ReadReject ==
    /\ pc = "read"
    /\ Throw(NetworkFailure)

\* One iteration of `for (const line of lines)`
DispatchLine ==
    /\ pc = "lines"
    /\ lines # <<>>
    /\ LET line == Head(lines)
           parsed == JSONparse(Slice(line, 6))
       IN  IF StartsWith(line, DataPrefix) /\ parsed.ok
           THEN /\ Dispatch(parsed.value)
                /\ dispatched' = Append(dispatched, parsed.value)
           ELSE UNCHANGED <<planData, error, currentAgent, agentMessage, dispatched>>
    /\ lines' = Tail(lines)
    /\ pc' = IF Tail(lines) = <<>> THEN "read" ELSE "lines"
    /\ UNCHANGED <<projectInput, loading, submitted, posts, err, respBody,
                   stream, chunks, streamEnded, returned, planProp, output>>

Next ==
    \/ SetProjectInput
    \/ HandleSubmit
    \/ FetchResolve
    \/ FetchReject
    \/ ReadChunk
    \/ ReadDone
    \/ ReadReject
    \/ DispatchLine

Spec == Init /\ [][Next]_vars

\* The fetch and every read settle, and the synchronous loop runs on
Settles == FetchResolve \/ FetchReject \/ ReadChunk \/ ReadDone \/ ReadReject \/ DispatchLine

FairSpec == Init /\ [][Next]_vars /\ WF_vars(Settles)

----------------------------------------------------------------------------
(* WorkflowGraph on its own: the component is rendered with any prop value *)

GraphInit ==
    /\ AppInit
    /\ planProp \in PlanProps
    /\ output = NotRendered

\* React calls the component with its planData prop
Render ==
    /\ output = NotRendered
    /\ output' = WorkflowGraph(planProp)
    /\ UNCHANGED planProp
    /\ UNCHANGED appVars

GraphNext == Render

GraphSpec == GraphInit /\ [][GraphNext]_vars

----------------------------------------------------------------------------
(* Vocabulary of the properties *)

Last(s) == s[Len(s)]

IndicatorCleared == currentAgent = Null /\ agentMessage = EmptyString

\* A line that is a frame: the data prefix followed by JSON that parses
WellFormed(line) == StartsWith(line, DataPrefix) /\ JSONparse(Slice(line, 6)).ok

\* A data line whose payload is not valid JSON
Malformed(line) == StartsWith(line, DataPrefix) /\ ~JSONparse(Slice(line, 6)).ok

\* The events of the well-formed frames among a sequence of lines, in order
RECURSIVE EventsOf(_)
EventsOf(ls) ==
    IF ls = <<>> THEN <<>>
    ELSE (IF WellFormed(Head(ls)) THEN <<JSONparse(Slice(Head(ls), 6)).value>> ELSE <<>>)
         \o EventsOf(Tail(ls))

\* The events a response body carries, whatever chunks it arrives in
BodyEvents(body) == EventsOf(Split(body))

\* Zero or more running events followed by one completed event
RunningThenCompleted(d) ==
    /\ Len(d) >= 1
    /\ Last(d).status = "completed"
    /\ \A i \in 1..(Len(d) - 1) : d[i].status = "running"

\* The most recent invocation got past the validation
RequestIssued == returned \in {"pending", "done", "caught"}

----------------------------------------------------------------------------
(* C1: when the stream dispatched zero or more running frames, then one    *)
(* completed frame carrying D, and then ended, the UI state handleSubmit   *)
(* leaves behind has the indicator cleared, planData = D, loading = false. *)

C1_CompletedStreamFinalState ==
    (returned = "done" /\ RunningThenCompleted(dispatched)) =>
        /\ currentAgent = Null
        /\ agentMessage = EmptyString
        /\ planData = Last(dispatched).data
        /\ loading = FALSE

C1_Witness ==
    /\ returned = "done"
    /\ Len(dispatched) = 3
    /\ RunningThenCompleted(dispatched)
    /\ planData = PlanD1

(* C2: handleSubmit invoked with an empty or white-space-only input issues *)
(* no HTTP request, sets the error to the validation message and leaves    *)
(* loading false: it has returned without ever suspending.                 *)

C2_BlankInputRejected ==
    (returned # "none" /\ Trim(submitted) = <<>>) =>
        /\ returned = "validation"
        /\ posts = <<>>
        /\ error = ValidationMessage
        /\ loading = FALSE
        /\ pc = "idle"

C2_Witness ==
    /\ returned = "validation"
    /\ submitted = <<SP>>
    /\ error = ValidationMessage

(* C3: the step that dispatches an error frame with message M sets error   *)
(* to M, clears the indicator and leaves planData as it was, so a plan     *)
(* stored by an earlier completed frame is still the active plan.          *)

ErrorFrameDispatched ==
    /\ Len(dispatched') = Len(dispatched) + 1
    /\ Last(dispatched').status = "error"

C3_ErrorFrameEffect ==
    [][ErrorFrameDispatched =>
        /\ error' = Last(dispatched').message
        /\ currentAgent' = Null
        /\ agentMessage' = EmptyString
        /\ planData' = planData]_vars

C3_Witness ==
    /\ Len(dispatched) >= 2
    /\ Last(dispatched).status = "error"
    /\ dispatched[Len(dispatched) - 1].status = "completed"
    /\ planData = PlanD1
    /\ error = ErrorM1

(* C4: a data line whose payload is not valid JSON is skipped and the read *)
(* loop goes on: when the stream has ended, every well-formed frame of a   *)
(* body that holds such a line has been dispatched, in order.              *)

C4_MalformedSkippedOthersDispatched ==
    (returned = "done" /\ \E i \in 1..Len(Split(respBody)) : Malformed(Split(respBody)[i])) =>
        dispatched = BodyEvents(respBody)

(* C5: a response whose status is outside the success range makes the      *)
(* request fail with an error carrying the status code, that error is the  *)
(* active error message, and the stream is never read.                     *)

C5_HttpErrorSurfaced ==
    (returned = "caught" /\ err \in {HttpErrorMessage(st) : st \in {x \in Statuses : ~Ok(x)}}) =>
        /\ error = err
        /\ chunks = 0
        /\ dispatched = <<>>

(* C6: an invocation with an input that is not blank issues exactly one    *)
(* POST to /api/generate-plan whose project_statement is that input,       *)
(* however many frames arrive and however the request ends.                *)

C6_ExactlyOnePost ==
    (returned # "none" /\ Trim(submitted) # <<>>) =>
        /\ RequestIssued
        /\ Len(posts) = 1
        /\ posts[1].method = "POST"
        /\ posts[1].url = "http://localhost:8000/api/generate-plan"
        /\ posts[1].body.project_statement = submitted

C6_Witness ==
    /\ returned = "done"
    /\ submitted = <<SP, "a", NL>>
    /\ Len(dispatched) = 3
    /\ Len(posts) = 1

(* C7: WorkflowGraph renders the placeholder for an absent or empty task   *)
(* sequence; for n > 0 tasks it renders n nodes in array order, the i-th   *)
(* numbered i whatever its id, coloured by priority alone (high red,       *)
(* medium amber, low green, anything else gray), with a connector after    *)
(* every node but the last: n - 1 connectors.                              *)

C7_GraphRendering ==
    LET tasks == IF planProp.present /\ planProp.has_tasks
                 THEN planProp.dependency_tasks ELSE <<>>
        n == Len(tasks)
    IN  output # NotRendered =>
        IF n = 0
        THEN /\ output.kind = "placeholder"
             /\ output.text = "No tasks to visualize"
             /\ output.nodes = <<>>
        ELSE /\ output.kind = "chain"
             /\ Len(output.nodes) = n
             /\ \A i \in 1..n :
                    /\ output.nodes[i].key = tasks[i].id
                    /\ output.nodes[i].number = i
                    /\ output.nodes[i].color =
                           (IF tasks[i].priority = "high" THEN "#ef4444"
                            ELSE IF tasks[i].priority = "medium" THEN "#f59e0b"
                            ELSE IF tasks[i].priority = "low" THEN "#10b981"
                            ELSE "#6b7280")
                    /\ output.nodes[i].arrow = (i < n)
             /\ Cardinality({i \in 1..n : output.nodes[i].arrow}) = n - 1

C7_Witness ==
    /\ output # NotRendered
    /\ planProp.has_tasks
    /\ Len(planProp.dependency_tasks) = 3
    /\ planProp.dependency_tasks[1] = [id |-> 3, priority |-> "urgent"]
    /\ planProp.dependency_tasks[2] = [id |-> 3, priority |-> "medium"]
    /\ planProp.dependency_tasks[3] = [id |-> 7, priority |-> "low"]
    /\ output.nodes[2].number = 2
    /\ output.nodes[2].color = "#f59e0b"

(* C8: the dispatched events depend on the response body alone and not on  *)
(* the chunks it arrives in: when the stream has ended, every well-formed  *)
(* data line of the body has been dispatched exactly once and in order.    *)

C8_ChunkingIrrelevant ==
    returned = "done" => dispatched = BodyEvents(respBody)

(* C9: every request that is started (loading = true) eventually returns   *)
(* to loading = false, given that the fetch and every read settle.         *)

C9_LoadingEventuallyFalse == (loading = TRUE) ~> (loading = FALSE)

C9_Witness ==
    /\ returned = "caught"
    /\ err = NetworkFailure
    /\ chunks >= 1
    /\ loading = FALSE

(* C10 as stated: in every state with loading = false the indicator is     *)
(* cleared.                                                                *)

C10_IdleImpliesCleared == (loading = FALSE) => IndicatorCleared

\* The frames among d that changed the indicator: running, completed, error
RECURSIVE Effective(_)
Effective(d) ==
    IF d = <<>> THEN <<>>
    ELSE (IF Head(d).status \in {"running", "completed", "error"}
          THEN <<Head(d)>> ELSE <<>>) \o Effective(Tail(d))

\* The most recent request ended at end-of-stream and the last running,
\* completed or error frame it dispatched, if any, was a running frame
EndedWithoutTerminalFrame ==
    /\ streamEnded
    /\ Effective(dispatched) # <<>> => Last(Effective(dispatched)).status = "running"

(* C10 amended: in every state with loading = false the indicator is       *)
(* cleared, unless the most recent request ended at end-of-stream without  *)
(* a completed or error frame as its last dispatched frame; the indicator  *)
(* then still shows the last running frame, or the connecting status when  *)
(* no frame was dispatched.                                                *)

C10_IdleClearedUnlessNoTerminalFrame ==
    (loading = FALSE) =>
        IF EndedWithoutTerminalFrame
        THEN IF Effective(dispatched) = <<>>
             THEN currentAgent = "system" /\ agentMessage = ConnectingMessage
             ELSE /\ currentAgent = Last(Effective(dispatched)).agent
                  /\ agentMessage = Last(Effective(dispatched)).message
        ELSE IndicatorCleared

C10_Witness ==
    /\ loading = FALSE
    /\ returned = "caught"
    /\ dispatched # <<>>
    /\ Last(dispatched).status = "running"
    /\ IndicatorCleared
====
